---- MODULE Spec2Model ----
(***************************************************************************)
(* Terminal queue and wallet ledger of TicketNow (Django).                 *)
(*                                                                         *)
(* The database tables EntryLog, Wallet and Deposit are the state.  Time   *)
(* is counted in whole minutes.  Money is counted in pesos.                *)
(*                                                                         *)
(* Spec      every request runs to completion before the next one starts   *)
(*           (one action per view).                                        *)
(* SpecConc  two requests run at once; every database statement of a view  *)
(*           is a step of its own (no view opens a transaction around its  *)
(*           statements, settings.py sets no ATOMIC_REQUESTS).             *)
(***************************************************************************)
EXTENDS Integers, FiniteSets, Sequences, TLC

(* ------------------------------ bounds -------------------------------- *)
MaxEarly == 3
MaxLate == 1
MaxLogs == 2
MaxDeposits == 2
MaxRequests == 3
MaxVehicles == 2

(* ------------------------- program constants -------------------------- *)
DEFAULT_DELETE_AFTER_MINUTES == 10
PASSENGER_DELETE_AFTER_MINUTES == 10
DEPARTED_VISIBLE_MINUTES == 5
DEFAULT_DEPARTURE_DURATION == 30
QUEUE_DATA_LIMIT == 20
Null == -1

STATUS_SUCCESS == "success"
STATUS_INSUFFICIENT == "insufficient"

(* -------------------------- input domains ----------------------------- *)
Vehicles == {"v1"}
NoVehicle == "none"
Tokens == Vehicles \cup {NoVehicle}

BalanceChoices == {50, 200}
AmountChoices == {0, 50}
SignedAmounts == AmountChoices \cup {-50}

\* The minutes at which requests arrive: the first few, the first few
\* after the delete window of a row created at minute 0 has passed, and the
\* minute after the default stay of such a row has run out.
Instants ==
    (0..MaxEarly) \cup
    ((DEFAULT_DELETE_AFTER_MINUTES + 1)..(DEFAULT_DELETE_AFTER_MINUTES + MaxLate)) \cup
    {DEFAULT_DEPARTURE_DURATION + 1}

VARIABLES
    now,        \* the server clock, minutes
    settings,   \* the SystemSettings singleton row
    logs,       \* the EntryLog table, a set of rows
    nextId,     \* the next EntryLog primary key
    balance,    \* Wallet.balance of every vehicle
    deposits,   \* the Deposit table, in insertion order
    last,       \* Spec: the request served last and its response
    pc,         \* SpecConc: where each request in flight stands
    loc,        \* SpecConc: the local variables of each request in flight
    started,    \* SpecConc: how many requests have been started
    balance0,   \* history: the balances at the start
    debits,     \* history: how many times a scan has saved each wallet
    charged_at, \* Spec, history: when a scan last saved each wallet (or Null)
    registry    \* SpecRegistry: the Vehicle table, row i has primary key i

vars == <<now, settings, logs, nextId, balance, deposits, last, pc, loc,
          started, balance0, debits, charged_at, registry>>

terminal_fee == settings.terminal_fee
min_deposit_amount == settings.min_deposit_amount
entry_cooldown_minutes == settings.entry_cooldown_minutes
departure_duration_minutes == settings.departure_duration_minutes

\* The configurations tried: the defaults with a short cooldown and no
\* auto-close within the run; no minimum deposit and a short stay; a cooldown
\* longer than the delete window.
SystemSettings ==
    {[terminal_fee |-> 50, min_deposit_amount |-> 100,
      entry_cooldown_minutes |-> 2, departure_duration_minutes |-> 30],
     [terminal_fee |-> 50, min_deposit_amount |-> 0,
      entry_cooldown_minutes |-> 2, departure_duration_minutes |-> 3],
     [terminal_fee |-> 50, min_deposit_amount |-> 100,
      entry_cooldown_minutes |-> 12, departure_duration_minutes |-> 3]}

(* ------------------------------ EntryLog ------------------------------ *)
\* A new row: created_at is auto_now_add, is_active defaults to True,
\* departed_at to NULL.
EntryLog(id, v, fee, status, t) ==
    [id |-> id, vehicle |-> v, fee_charged |-> fee, status |-> status,
     created_at |-> t, is_active |-> TRUE, departed_at |-> Null]

Max(S) == CHOOSE x \in S : \A y \in S : y <= x
Min(S) == CHOOSE x \in S : \A y \in S : x <= y

ActiveLogs(L, v) == {r \in L : r.vehicle = v /\ r.is_active}

\* .filter(vehicle=v, is_active=True).first() under Meta.ordering -created_at:
\* the candidates are the newest active rows (a tie is the database's choice).
FirstActive(L, v) ==
    {r \in ActiveLogs(L, v) : \A q \in ActiveLogs(L, v) : q.created_at <= r.created_at}

\* created_at of .filter(vehicle=v, status=success).order_by(-created_at).first()
RecentEntry(L, v) ==
    LET S == {r.created_at : r \in {q \in L : q.vehicle = v /\ q.status = STATUS_SUCCESS}}
    IN  IF S = {} THEN Null ELSE Max(S)

(* --------------------------- maintenance ------------------------------ *)
\* Variants of the filter: a strict comparison, and no is_active condition.
AutoCloseStrict(L, t) ==
    LET cutoff == t - departure_duration_minutes
    IN  {IF r.is_active /\ r.created_at < cutoff
            THEN [r EXCEPT !.is_active = FALSE, !.departed_at = t]
            ELSE r : r \in L}

AutoCloseAll(L, t) ==
    LET cutoff == t - departure_duration_minutes
    IN  {IF r.created_at <= cutoff
            THEN [r EXCEPT !.is_active = FALSE, !.departed_at = t]
            ELSE r : r \in L}

\* Variant: the pass closes nothing.
AutoCloseNever(L, t) == L

AutoClose(L, t) ==
    LET cutoff == t - departure_duration_minutes
    IN  {IF r.is_active /\ r.created_at <= cutoff
            THEN [r EXCEPT !.is_active = FALSE, !.departed_at = t]
            ELSE r : r \in L}

\* Variant: created_at__lte instead of created_at__lt.
DeleteOldInclusive(L, t, delete_after_minutes) ==
    LET delete_cutoff == t - delete_after_minutes
    IN  {r \in L : ~(r.created_at <= delete_cutoff
                     /\ (~r.is_active \/ r.departed_at # Null))}

DeleteOld(L, t, delete_after_minutes) ==
    LET delete_cutoff == t - delete_after_minutes
    IN  {r \in L : ~(r.created_at < delete_cutoff
                     /\ (~r.is_active \/ r.departed_at # Null))}

\* Variant: the two steps of the pass in the other order.
_apply_cleanup_and_auto_close(L, t) ==
    AutoClose(DeleteOld(L, t, DEFAULT_DELETE_AFTER_MINUTES), t)

_apply_auto_close_and_cleanup(L, t) ==
    DeleteOld(AutoClose(L, t), t, DEFAULT_DELETE_AFTER_MINUTES)

_maintenance_task(L, t) ==
    DeleteOld(AutoClose(L, t), t, PASSENGER_DELETE_AFTER_MINUTES)

\* What a request served on its own leaves alone.
\* The requests of the terminal, the board and the deposit desk do not
\* write the Vehicle table.
Serial == UNCHANGED <<now, settings, pc, loc, started, balance0, registry>>

(* ------------------------------ responses ----------------------------- *)
Response(op, v, id, kind, bal) ==
    [op |-> op, v |-> v, id |-> id, kind |-> kind,
     status |-> IF kind \in {"success", "departed", "ok"} THEN "success" ELSE "error",
     balance |-> bal]

(* ---------------------------- qr_scan_entry --------------------------- *)
\* What the POST branch decides from what it has read: active is whether
\* active_log was found, recent the created_at of recent_entry (or Null),
\* bal the balance of the wallet object it loaded, t its own `now`.
\* In the departure branch `timezone` is datetime.timezone (the import at
\* line 492 rebinds the name for the whole function), so timezone.now()
\* raises AttributeError before active_log.save(); the handler at line 567
\* answers "Unexpected error" and nothing is stored.
\* Variants of the checks, each a slip the code could have made.
ScanOutcomeNoFeeCheck(active, recent, bal, t) ==
    IF active THEN "unexpected"
    ELSE IF recent # Null /\ (t - recent) < entry_cooldown_minutes THEN "cooldown"
    ELSE IF bal < min_deposit_amount THEN "below_min"
    ELSE "success"

ScanOutcomeIgnoreActive(active, recent, bal, t) ==
    IF recent # Null /\ (t - recent) < entry_cooldown_minutes THEN "cooldown"
    ELSE IF bal < min_deposit_amount THEN "below_min"
    ELSE IF bal >= terminal_fee THEN "success"
    ELSE "insufficient"

ScanOutcomeFeeFirst(active, recent, bal, t) ==
    IF active THEN "unexpected"
    ELSE IF recent # Null /\ (t - recent) < entry_cooldown_minutes THEN "cooldown"
    ELSE IF bal >= terminal_fee THEN "success"
    ELSE IF bal < min_deposit_amount THEN "below_min"
    ELSE "insufficient"

ScanOutcome(active, recent, bal, t) ==
    IF active THEN "unexpected"
    ELSE IF recent # Null /\ (t - recent) < entry_cooldown_minutes THEN "cooldown"
    ELSE IF bal < min_deposit_amount THEN "below_min"
    ELSE IF bal >= terminal_fee THEN "success"
    ELSE "insufficient"

\* wallet.balance -= entry_fee; wallet.save(): the row gets the value
\* computed from the balance the request loaded.
WalletSaveSkipped(B, v, bal) == B

\* Variant: the minimum deposit is taken instead of the fee.
WalletSaveMinimum(B, v, bal) == [B EXCEPT ![v] = bal - min_deposit_amount]

WalletSave(B, v, bal) == [B EXCEPT ![v] = bal - terminal_fee]

\* The balance field of the JSON response.
ScanBalance(kind, bal) ==
    CASE kind = "unexpected" -> Null
      [] kind = "success" -> bal - terminal_fee
      [] OTHER -> bal

Inserts(kind) == kind \in {"success", "insufficient"}

\* request.POST.get("qr_code", "").strip() of a request without a token
EmptyToken == ""
ScanTokens == Tokens \cup {EmptyToken}

\* Variant: the lookup falls back to the first vehicle.
VehicleOfAny(qr_code) ==
    IF qr_code \in Vehicles THEN qr_code ELSE CHOOSE v \in Vehicles : TRUE

\* Vehicle.objects.filter(qr_value__iexact=qr_code).first()
VehicleOf(qr_code) ==
    IF qr_code \in Vehicles THEN qr_code ELSE NoVehicle

qr_scan_entry(qr_code) ==
    LET L1 == _apply_auto_close_and_cleanup(logs, now)
        vehicle == VehicleOf(qr_code)
    IN  IF qr_code = EmptyToken \/ vehicle = NoVehicle
        THEN /\ logs' = L1
             /\ last' = Response("qr_scan_entry", qr_code, 0,
                                 IF qr_code = EmptyToken THEN "empty" ELSE "invalid",
                                 Null)
             /\ UNCHANGED <<nextId, balance, deposits, debits, charged_at>>
             /\ Serial
        ELSE LET bal == balance[vehicle]
                 kind == ScanOutcome(FirstActive(L1, vehicle) # {},
                                     RecentEntry(L1, vehicle), bal, now)
             IN  /\ Inserts(kind) => nextId <= MaxLogs
                 /\ balance' = IF kind = "success"
                                  THEN WalletSave(balance, vehicle, bal)
                                  ELSE balance
                 /\ debits' = IF kind = "success"
                                 THEN [debits EXCEPT ![vehicle] = @ + 1]
                                 ELSE debits
                 /\ charged_at' = IF kind = "success"
                                     THEN [charged_at EXCEPT ![vehicle] = now]
                                     ELSE charged_at
                 /\ logs' = CASE kind = "success" ->
                                   L1 \cup {EntryLog(nextId, vehicle, terminal_fee,
                                                     STATUS_SUCCESS, now)}
                              [] kind = "insufficient" ->
                                   L1 \cup {EntryLog(nextId, vehicle, terminal_fee,
                                                     STATUS_INSUFFICIENT, now)}
                              [] OTHER -> L1
                 /\ nextId' = IF Inserts(kind) THEN nextId + 1 ELSE nextId
                 /\ last' = Response("qr_scan_entry", qr_code, 0, kind,
                                     ScanBalance(kind, bal))
                 /\ UNCHANGED deposits
                 /\ Serial

(* -------------------------- qr_exit_validation ------------------------ *)
\* Variant: the save writes is_active only.
MarkInactiveUnstamped(L, r, t) ==
    (L \ {r}) \cup {[r EXCEPT !.is_active = FALSE]}

\* active_log.save(update_fields=[is_active, departed_at]) of row r at t
MarkInactive(L, r, t) ==
    (L \ {r}) \cup {[r EXCEPT !.is_active = FALSE, !.departed_at = t]}

qr_exit_validation(qr_code) ==
    /\ Serial
    /\ UNCHANGED <<nextId, balance, deposits, debits, charged_at>>
    /\ IF qr_code \notin Vehicles
       THEN /\ last' = Response("qr_exit_validation", qr_code, 0, "invalid", Null)
            /\ UNCHANGED logs
       ELSE IF FirstActive(logs, qr_code) = {}
       THEN /\ last' = Response("qr_exit_validation", qr_code, 0, "not_inside", Null)
            /\ UNCHANGED logs
       ELSE \E active_log \in FirstActive(logs, qr_code) :
            /\ logs' = MarkInactive(logs, active_log, now)
            /\ last' = Response("qr_exit_validation", qr_code, active_log.id,
                                "departed", Null)

(* --------------------- mark_departed, update_departure_time ----------- *)
\* get_object_or_404(EntryLog, id=entry_id, is_active=True)
\* Variant: the lookup ignores is_active.
GetAny(L, entry_id) == {r \in L : r.id = entry_id}

\* get_object_or_404(EntryLog, id=entry_id, is_active=True)
GetActive(L, entry_id) == {r \in L : r.id = entry_id /\ r.is_active}

mark_departed(entry_id) ==
    /\ Serial
    /\ UNCHANGED <<nextId, balance, deposits, debits, charged_at>>
    /\ IF GetActive(logs, entry_id) = {}
       THEN /\ last' = Response("mark_departed", "-", entry_id, "not_found", Null)
            /\ UNCHANGED logs
       ELSE \E log \in GetActive(logs, entry_id) :
            /\ logs' = MarkInactive(logs, log, now)
            /\ last' = Response("mark_departed", log.vehicle, entry_id, "departed", Null)

\* log.departed_at = new_time; log.save(update_fields=[departed_at])
SetDeparture(L, r, new_time) ==
    (L \ {r}) \cup {[r EXCEPT !.departed_at = new_time]}

update_departure_time(entry_id, new_time) ==
    /\ Serial
    /\ UNCHANGED <<nextId, balance, deposits, debits, charged_at>>
    /\ IF GetActive(logs, entry_id) = {}
       THEN /\ last' = Response("update_departure_time", "-", entry_id, "not_found", Null)
            /\ UNCHANGED logs
       ELSE IF new_time = Null
       THEN /\ last' = Response("update_departure_time", "-", entry_id, "invalid", Null)
            /\ UNCHANGED logs
       ELSE \E log \in GetActive(logs, entry_id) :
            /\ logs' = SetDeparture(logs, log, new_time)
            /\ last' = Response("update_departure_time", log.vehicle, entry_id, "ok", Null)

(* ------------------------------ sweeps -------------------------------- *)
\* The staff queue views (terminal_queue, tv_display_view, queue_data,
\* simple_queue_view, manage_queue) run the pass and then only read.
\* .order_by("-created_at"): the rows of S, newest first.
RECURSIVE NewestFirst(_)
NewestFirst(S) ==
    IF S = {} THEN <<>>
    ELSE LET r == CHOOSE x \in S : \A y \in S : y.created_at <= x.created_at
         IN  <<r>> \o NewestFirst(S \ {r})

\* What queue_data answers: the newest 20 rows with status success and
\* is_active, each with its id, fee and entry time.
queue_data_entries(L) ==
    LET rows == NewestFirst({r \in L : r.status = STATUS_SUCCESS /\ r.is_active})
    IN  [i \in 1..Min({Len(rows), QUEUE_DATA_LIMIT}) |->
            [id |-> rows[i].id, fee |-> rows[i].fee_charged,
             time |-> rows[i].created_at]]

\* What manage_queue (and simple_queue_view) renders: every row with
\* is_active and status success, with its computed departure time.
manage_queue_entries(L) ==
    LET rows == NewestFirst({r \in L : r.is_active /\ r.status = STATUS_SUCCESS})
    IN  [i \in 1..Len(rows) |->
            [id |-> rows[i].id, entry_time |-> rows[i].created_at,
             departure_time |-> rows[i].created_at + departure_duration_minutes]]

\* Variant: the projection stores the departure time it computes.
queue_data_saving_departure ==
    /\ logs' = {IF r.is_active
                   THEN [r EXCEPT !.departed_at = r.created_at + departure_duration_minutes]
                   ELSE r : r \in _apply_auto_close_and_cleanup(logs, now)}
    /\ last' = Response("queue_data", "-", 0, "ok", Null)
    /\ UNCHANGED <<nextId, balance, deposits, debits, charged_at>>
    /\ Serial

queue_data ==
    /\ logs' = _apply_auto_close_and_cleanup(logs, now)
    /\ last' = Response("queue_data", "-", 0, "ok", Null) @@
                   [entries |-> queue_data_entries(logs'),
                    queue |-> manage_queue_entries(logs')]
    /\ UNCHANGED <<nextId, balance, deposits, debits, charged_at>>
    /\ Serial

\* timezone.localtime(t).date(): the local calendar day of an instant. The
\* behaviours start shortly before local midnight, which falls at Midnight.
Midnight == MaxEarly - 1
LocalDate(t) == IF t < Midnight THEN 0 ELSE 1

\* Vehicle.route_id, and the values of the board's ?route= parameter:
\* NoRouteFilter stands for an absent parameter or 'all'.
route_id == [v \in Vehicles |-> 1]
NoRouteFilter == 0
RouteFilters == {NoRouteFilter, 1, 2}

\* .order_by('created_at'): the rows of S, oldest first.
RECURSIVE OldestFirst(_)
OldestFirst(S) ==
    IF S = {} THEN <<>>
    ELSE LET r == CHOOSE x \in S : \A y \in S : x.created_at <= y.created_at
         IN  <<r>> \o OldestFirst(S \ {r})

\* Variant: only rows already closed count as departed.
public_queue_rows_closed_only(L, t, route_filter) ==
    {r \in L :
        /\ \/ r.is_active /\ LocalDate(r.created_at) = LocalDate(t)
           \/ /\ ~r.is_active
              /\ r.departed_at # Null
              /\ r.departed_at >= t - DEPARTED_VISIBLE_MINUTES
        /\ route_filter # NoRouteFilter => route_id[r.vehicle] = route_filter}

\* The rows public_queue_view selects: Q(is_active, created_at__date = the
\* local date of now) | Q(departed_at >= now - DEPARTED_VISIBLE_MINUTES),
\* narrowed to the vehicles of the requested route.
public_queue_rows(L, t, route_filter) ==
    {r \in L :
        /\ \/ r.is_active /\ LocalDate(r.created_at) = LocalDate(t)
           \/ r.departed_at # Null /\ r.departed_at >= t - DEPARTED_VISIBLE_MINUTES
        /\ route_filter # NoRouteFilter => route_id[r.vehicle] = route_filter}

\* The entries the board renders, oldest first.
public_queue_entries(L, t, route_filter) ==
    LET rows == OldestFirst(public_queue_rows(L, t, route_filter))
    IN  [i \in 1..Len(rows) |->
            [id |-> rows[i].id,
             departure_time |-> rows[i].created_at + departure_duration_minutes,
             is_active |-> rows[i].is_active,
             recently_departed |->
                 /\ ~rows[i].is_active
                 /\ rows[i].departed_at # Null
                 /\ rows[i].departed_at >= t - DEPARTED_VISIBLE_MINUTES]]

\* The public board page.
public_queue_view(route_filter) ==
    /\ logs' = _maintenance_task(logs, now)
    /\ last' = Response("public_queue_view", "-", 0, "ok", Null) @@
                   [route |-> route_filter,
                    entries |-> public_queue_entries(logs', now, route_filter)]
    /\ UNCHANGED <<nextId, balance, deposits, debits, charged_at>>
    /\ Serial

\* ten_mins_ago = now - timedelta(minutes=10)
ten_mins_ago(t) == t - 10

\* The rows public_queue_data renders: status = success and created_at >=
\* ten_mins_ago - departure_duration, narrowed to the requested route; the
\* loop skips an active row created on another local date and keeps a row
\* that is boarding (active) or departed within the last
\* PASSENGER_DELETE_AFTER_MINUTES.
public_queue_data_rows(L, t, route_filter) ==
    {q \in L :
        /\ q.status = STATUS_SUCCESS
        /\ q.created_at >= ten_mins_ago(t) - departure_duration_minutes
        /\ route_filter # NoRouteFilter => route_id[q.vehicle] = route_filter
        /\ ~(q.is_active /\ LocalDate(q.created_at) # LocalDate(t))
        /\ \/ q.is_active
           \/ /\ ~q.is_active
              /\ q.departed_at # Null
              /\ t - q.departed_at <= PASSENGER_DELETE_AFTER_MINUTES}

\* The JSON entries, oldest first; id names the row an entry is built from.
public_queue_data_entries(L, t, route_filter) ==
    LET rows == OldestFirst(public_queue_data_rows(L, t, route_filter))
    IN  [i \in 1..Len(rows) |->
            [id |-> rows[i].id,
             status |-> IF rows[i].is_active THEN "Boarding" ELSE "Departed",
             departure |-> rows[i].created_at + departure_duration_minutes]]

\* The AJAX endpoint of the public board.
public_queue_data(route_filter) ==
    /\ logs' = _maintenance_task(logs, now)
    /\ last' = Response("public_queue_data", "-", 0, "ok", Null) @@
                   [route |-> route_filter,
                    entries |-> public_queue_data_entries(logs', now, route_filter)]
    /\ UNCHANGED <<nextId, balance, deposits, debits, charged_at>>
    /\ Serial

(* ------------------------------ deposits ------------------------------ *)
\* Deposit.save of a new row, inside transaction.atomic(): the row is
\* inserted and the wallet is updated with balance = F('balance') + amount,
\* an increment the database evaluates on the stored value; bal, the balance
\* of the wallet object the view loaded, is not used.
DepositSaveCached(B, v, amount, bal) == [B EXCEPT ![v] = bal + amount]

DepositSave(B, v, amount, bal) == [B EXCEPT ![v] = @ + amount]

\* Variant: only negative amounts are refused.
AmountValidNonNegative(amount) == amount >= 0

\* `if amt <= 0:` refuses the request, in each deposit endpoint.
AmountValid(amount) == amount > 0

\* Driver.vehicles.first() for the drivers of the registry.
Drivers == {"d1"}
NoDriver == "nobody"
DriverTokens == Drivers \cup {NoDriver}
vehicle_of == [d \in Drivers |-> "v1"]

\* timezone.now().strftime('%Y%m%d'): the UTC day. Local midnight (Asia/
\* Manila) is 16:00 UTC, so the UTC day is the same at every instant here.
UtcDate(t) == 0

\* f"DEP-{date}-{uuid.uuid4().hex[:6].upper()}", as the pair of its parts
reference_number(t, suffix) == <<UtcDate(t), suffix>>

\* What uuid4 may yield: a suffix no stored reference has (which one does
\* not matter; it is named by the count of rows) or the suffix of a stored
\* reference.
SuffixChoices(D) ==
    {Len(D) + 1} \cup {D[i].reference_number[2] : i \in 1..Len(D)}

\* unique=True on reference_number: the insert raises IntegrityError
ReferenceTaken(D, reference) ==
    \E i \in 1..Len(D) : D[i].reference_number = reference

DepositCreate(D, v, amount, reference) ==
    Append(D, [wallet |-> v, amount |-> amount, reference_number |-> reference])

\* Variant: the wallet is credited on every save.
Deposit_save_always(B, d, is_new) ==
    DepositSave(B, d.wallet, d.amount, B[d.wallet])

\* Deposit.save of the row d: is_new = (self.pk is None); the wallet is
\* credited only when the row is new.
Deposit_save(B, d, is_new) ==
    IF is_new THEN DepositSave(B, d.wallet, d.amount, B[d.wallet]) ELSE B

ajax_add_deposit(vehicle_id, amount) ==
    /\ Serial
    /\ UNCHANGED <<logs, nextId, debits, charged_at>>
    /\ IF vehicle_id \notin Vehicles
       THEN /\ last' = Response("ajax_add_deposit", vehicle_id, 0, "not_found", Null)
            /\ UNCHANGED <<balance, deposits>>
       ELSE IF ~AmountValid(amount)
       THEN /\ last' = Response("ajax_add_deposit", vehicle_id, 0, "invalid", Null)
            /\ UNCHANGED <<balance, deposits>>
       ELSE \E suffix \in SuffixChoices(deposits) :
            IF ReferenceTaken(deposits, reference_number(now, suffix))
            THEN /\ last' = Response("ajax_add_deposit", vehicle_id, 0, "duplicate", Null)
                 /\ UNCHANGED <<balance, deposits>>
            ELSE /\ Len(deposits) < MaxDeposits
                 /\ deposits' = DepositCreate(deposits, vehicle_id, amount,
                                             reference_number(now, suffix))
                 /\ balance' = Deposit_save(balance,
                                            [wallet |-> vehicle_id, amount |-> amount],
                                            TRUE)
                 /\ last' = Response("ajax_add_deposit", vehicle_id, 0, "ok", Null)

\* deposit_menu, POST by a staff user: the amount is checked before the
\* vehicle is looked up.
deposit_menu(vehicle_id, amount) ==
    /\ Serial
    /\ UNCHANGED <<logs, nextId, debits, charged_at>>
    /\ IF ~AmountValid(amount)
       THEN /\ last' = Response("deposit_menu", vehicle_id, 0, "invalid", Null)
            /\ UNCHANGED <<balance, deposits>>
       ELSE IF vehicle_id \notin Vehicles
       THEN /\ last' = Response("deposit_menu", vehicle_id, 0, "not_found", Null)
            /\ UNCHANGED <<balance, deposits>>
       ELSE \E suffix \in SuffixChoices(deposits) :
            IF ReferenceTaken(deposits, reference_number(now, suffix))
            THEN /\ last' = Response("deposit_menu", vehicle_id, 0, "duplicate", Null)
                 /\ UNCHANGED <<balance, deposits>>
            ELSE /\ Len(deposits) < MaxDeposits
                 /\ deposits' = DepositCreate(deposits, vehicle_id, amount,
                                             reference_number(now, suffix))
                 /\ balance' = Deposit_save(balance,
                                            [wallet |-> vehicle_id, amount |-> amount],
                                            TRUE)
                 /\ last' = Response("deposit_menu", vehicle_id, 0, "ok", Null)

\* vehicles.ajax_deposit: the deposit goes to the first vehicle of the
\* driver; the answer carries the new balance.
ajax_deposit(driver_id, amount) ==
    /\ Serial
    /\ UNCHANGED <<logs, nextId, debits, charged_at>>
    /\ IF driver_id \notin Drivers
       THEN /\ last' = Response("ajax_deposit", driver_id, 0, "not_found", Null)
            /\ UNCHANGED <<balance, deposits>>
       ELSE IF ~AmountValid(amount)
       THEN /\ last' = Response("ajax_deposit", vehicle_of[driver_id], 0,
                                "invalid", Null)
            /\ UNCHANGED <<balance, deposits>>
       ELSE \E suffix \in SuffixChoices(deposits) :
            IF ReferenceTaken(deposits, reference_number(now, suffix))
            THEN /\ last' = Response("ajax_deposit", vehicle_of[driver_id], 0, "duplicate", Null)
                 /\ UNCHANGED <<balance, deposits>>
            ELSE /\ Len(deposits) < MaxDeposits
                 /\ deposits' = DepositCreate(deposits, vehicle_of[driver_id], amount,
                                             reference_number(now, suffix))
                 /\ balance' = Deposit_save(balance,
                                            [wallet |-> vehicle_of[driver_id],
                                             amount |-> amount],
                                            TRUE)
                 /\ last' = Response("ajax_deposit", vehicle_of[driver_id], 0, "ok",
                                     balance'[vehicle_of[driver_id]])

\* The admin change form of a Deposit (DepositAdmin) saves the stored row
\* again: save() runs with pk set.
deposit_change(deposit_id) ==
    /\ Serial
    /\ UNCHANGED <<logs, nextId, debits, charged_at, deposits>>
    /\ IF deposit_id \notin 1..Len(deposits)
       THEN /\ last' = Response("deposit_change", "-", deposit_id, "not_found", Null)
            /\ UNCHANGED balance
       ELSE /\ balance' = Deposit_save(balance, deposits[deposit_id], FALSE)
            /\ last' = Response("deposit_change", deposits[deposit_id].wallet,
                                deposit_id, "ok", Null)

(* ------------------------------- clock -------------------------------- *)
Clock ==
    /\ \E t \in Instants : t > now
    /\ now' = Min({t \in Instants : t > now})
    /\ UNCHANGED <<settings, logs, nextId, balance, deposits, debits,
                   charged_at, pc, loc, started, balance0, registry>>

Tick == Clock /\ last' = Response("tick", "-", 0, "ok", Null)

(* ------------------- Spec: one request at a time ---------------------- *)
Procs == {1, 2}
Idle == [p \in Procs |-> "idle"]
NoLocal == [v |-> "-", bal |-> 0, t |-> 0, amount |-> 0, id |-> 0]
NoLocals == [p \in Procs |-> NoLocal]

Init ==
    /\ now = 0
    /\ settings \in SystemSettings
    /\ logs = {}
    /\ nextId = 1
    /\ balance \in [Vehicles -> BalanceChoices]
    /\ balance0 = balance
    /\ deposits = <<>>
    /\ debits = [v \in Vehicles |-> 0]
    /\ charged_at = [v \in Vehicles |-> Null]
    /\ last = Response("init", "-", 0, "ok", Null)
    /\ pc = Idle
    /\ started = 0
    /\ loc = NoLocals
    /\ registry = <<>>

Next ==
    \/ \E qr_code \in ScanTokens : qr_scan_entry(qr_code)
    \/ \E qr_code \in Tokens : qr_exit_validation(qr_code)
    \/ \E entry_id \in 1..MaxLogs : mark_departed(entry_id)
    \/ \E entry_id \in 1..MaxLogs,
          new_time \in {Null, now, now + DEFAULT_DEPARTURE_DURATION} :
          update_departure_time(entry_id, new_time)
    \/ queue_data
    \/ \E route_filter \in RouteFilters : public_queue_view(route_filter)
    \/ \E vehicle_id \in Tokens, amount \in AmountChoices :
          ajax_add_deposit(vehicle_id, amount)
    \/ Tick

Spec == Init /\ [][Next]_vars

\* The public board: its page and its AJAX endpoint, with the gate and the
\* staff overrides that change what they list.
NextBoard ==
    \/ \E qr_code \in Tokens : qr_scan_entry(qr_code)
    \/ \E qr_code \in Tokens : qr_exit_validation(qr_code)
    \/ \E entry_id \in 1..MaxLogs : mark_departed(entry_id)
    \/ \E entry_id \in 1..MaxLogs,
          new_time \in {Null, now, now + DEFAULT_DEPARTURE_DURATION} :
          update_departure_time(entry_id, new_time)
    \/ \E route_filter \in RouteFilters : public_queue_view(route_filter)
    \/ \E route_filter \in RouteFilters : public_queue_data(route_filter)
    \/ Tick

SpecBoard == Init /\ [][NextBoard]_vars

\* The deposit desk: every way a Deposit is saved (the three endpoints and
\* the admin change form), with the scans and exits of the gate.
NextDeposits ==
    \/ \E vehicle_id \in Tokens, amount \in SignedAmounts :
          deposit_menu(vehicle_id, amount)
    \/ \E vehicle_id \in Tokens, amount \in SignedAmounts :
          ajax_add_deposit(vehicle_id, amount)
    \/ \E driver_id \in DriverTokens, amount \in SignedAmounts :
          ajax_deposit(driver_id, amount)
    \/ \E deposit_id \in 1..MaxDeposits : deposit_change(deposit_id)
    \/ \E qr_code \in Tokens : qr_scan_entry(qr_code)
    \/ \E qr_code \in Tokens : qr_exit_validation(qr_code)
    \/ Tick

SpecDeposits == Init /\ [][NextDeposits]_vars

\* The terminal with people at work: the clock goes on, and the queue
\* pages poll queue_data, so a sweep is never put off for ever.
NextLive ==
    \/ \E qr_code \in Tokens : qr_scan_entry(qr_code)
    \/ \E qr_code \in Tokens : qr_exit_validation(qr_code)
    \/ \E entry_id \in 1..MaxLogs,
          new_time \in {Null, now, now + DEFAULT_DEPARTURE_DURATION} :
          update_departure_time(entry_id, new_time)
    \/ queue_data
    \/ Tick

SpecLive == Init /\ [][NextLive]_vars /\ WF_vars(Tick) /\ WF_vars(queue_data)

(* ------------------ SpecRegistry: the Vehicle table ------------------- *)
\* Strings are sequences of characters here, so that the derivation of the
\* token is computed as the code computes it.
UpperOf == [c \in {"a", "b", "v", "e", "h"} |->
              CASE c = "a" -> "A" [] c = "b" -> "B" [] c = "v" -> "V"
                [] c = "e" -> "E" [] c = "h" -> "H"]

\* str.upper()
Upper(str) ==
    [i \in 1..Len(str) |-> IF str[i] \in DOMAIN UpperOf THEN UpperOf[str[i]]
                                                         ELSE str[i]]

\* str.lower(), for the tokens a scanner may submit
Lower(str) ==
    [i \in 1..Len(str) |->
        IF \E c \in DOMAIN UpperOf : UpperOf[c] = str[i]
           THEN CHOOSE c \in DOMAIN UpperOf : UpperOf[c] = str[i]
           ELSE str[i]]

\* str.replace(" ", "-")
ReplaceSpaces(str) ==
    [i \in 1..Len(str) |-> IF str[i] = " " THEN "-" ELSE str[i]]

\* str(self.id)
DigitOf == <<"1", "2", "3", "4", "5", "6", "7", "8", "9">>
RECURSIVE Digits(_)
Digits(n) ==
    IF n < 10 THEN <<IF n = 0 THEN "0" ELSE DigitOf[n]>>
    ELSE Digits(n \div 10) \o <<IF n % 10 = 0 THEN "0" ELSE DigitOf[n % 10]>>

\* Variant: the token is derived from the plate alone.
expected_qr_value_plate_only(id, license_plate) ==
    Upper(ReplaceSpaces(<<"V", "E", "H", "-">> \o license_plate))

\* f"VEH-{self.id}-{self.license_plate}".replace(" ", "-").upper()
expected_qr_value(id, license_plate) ==
    Upper(ReplaceSpaces(<<"V", "E", "H", "-">> \o Digits(id) \o <<"-">>
                        \o license_plate))

\* The plates typed into the forms, and VehicleRegistrationForm's
\* clean_license_plate / Vehicle.clean: strip().upper() (no plate here has
\* outer blanks).
PlateChoices == {<<"a", "b", " ", "1">>, <<"A", "B", " ", "1">>,
                 <<"A", "B", "-", "1">>, <<"1", "-", "A", "B">>}
clean_license_plate(license_plate) == Upper(license_plate)

\* unique=True on license_plate: the plate is taken by a row other than id
PlateTaken(R, id, license_plate) ==
    \E i \in 1..Len(R) : i # id /\ R[i].license_plate = license_plate

\* Vehicle.save of row id with the given plate: the row is saved, then, if
\* it is new or its token is not the expected one, saved again with the
\* expected token.
Vehicle_save(R, id, license_plate) ==
    LET creating == id > Len(R)
        saved == IF creating
                    THEN Append(R, [license_plate |-> license_plate,
                                    qr_value |-> <<>>])
                    ELSE [R EXCEPT ![id].license_plate = license_plate]
        expected == expected_qr_value(id, license_plate)
    IN  IF creating \/ saved[id].qr_value # expected
           THEN [saved EXCEPT ![id].qr_value = expected]
           ELSE saved

RegistryStep ==
    UNCHANGED <<now, settings, logs, nextId, balance, deposits, pc, loc,
                started, balance0, debits, charged_at>>

\* vehicle_registration (and register_vehicle, ajax_register_vehicle,
\* staff_dashboard): the form is validated, then vehicle.save().
vehicle_registration(license_plate) ==
    LET plate == clean_license_plate(license_plate)
    IN  /\ RegistryStep
        /\ IF PlateTaken(registry, 0, plate)
           THEN /\ last' = Response("vehicle_registration", "-", 0, "invalid", Null)
                /\ UNCHANGED registry
           ELSE /\ Len(registry) < MaxVehicles
                /\ registry' = Vehicle_save(registry, Len(registry) + 1, plate)
                /\ last' = Response("vehicle_registration", "-",
                                    Len(registry) + 1, "ok", Null)

\* The admin change form of a Vehicle (VehicleAdmin): a new plate for the
\* stored row id.
vehicle_change(id, license_plate) ==
    LET plate == clean_license_plate(license_plate)
    IN  /\ RegistryStep
        /\ IF id \notin 1..Len(registry)
           THEN /\ last' = Response("vehicle_change", "-", id, "not_found", Null)
                /\ UNCHANGED registry
           ELSE IF PlateTaken(registry, id, plate)
           THEN /\ last' = Response("vehicle_change", "-", id, "invalid", Null)
                /\ UNCHANGED registry
           ELSE /\ registry' = Vehicle_save(registry, id, plate)
                /\ last' = Response("vehicle_change", "-", id, "ok", Null)

\* Vehicle.objects.filter(qr_value__iexact=qr_code): the rows whose token
\* equals qr_code when case is ignored.
VehiclesMatching(R, qr_code) ==
    {i \in 1..Len(R) : Upper(R[i].qr_value) = Upper(qr_code)}

\* The tokens a scanner may submit: a stored token, as printed or in lower
\* case, or the token the first row would have under any plate.
ScannedTokens ==
    {registry[i].qr_value : i \in 1..Len(registry)}
    \cup {Lower(registry[i].qr_value) : i \in 1..Len(registry)}
    \cup {expected_qr_value(1, clean_license_plate(pl)) : pl \in PlateChoices}

\* The lookup of qr_scan_entry and qr_exit_validation, on its own.
qr_lookup(qr_code) ==
    /\ RegistryStep
    /\ UNCHANGED registry
    /\ last' = Response("qr_lookup", "-", 0,
                        IF VehiclesMatching(registry, qr_code) = {}
                           THEN "invalid" ELSE "ok", Null) @@
                   [found |-> VehiclesMatching(registry, qr_code)]

NextRegistry ==
    \/ \E license_plate \in PlateChoices : vehicle_registration(license_plate)
    \/ \E id \in 1..MaxVehicles, license_plate \in PlateChoices :
          vehicle_change(id, license_plate)
    \/ \E qr_code \in ScannedTokens : qr_lookup(qr_code)

SpecRegistry == Init /\ [][NextRegistry]_vars

(* ---------------- SpecConc: two requests in flight -------------------- *)
\* Every step below is one database statement of the view, in the order of
\* the source; what a request has read it keeps in loc[p].
\* What a step of a request in flight leaves alone.
Conc == UNCHANGED <<now, settings, last, balance0, charged_at, registry>>

\* A request takes the lowest free slot (the slots are interchangeable).
Start(p, label) ==
    /\ pc[p] = "idle"
    /\ \A q \in Procs : q < p => pc[q] # "idle"
    /\ started < MaxRequests
    /\ started' = started + 1
    /\ pc' = [pc EXCEPT ![p] = label]
    /\ Conc

Goto(p, label) ==
    /\ pc' = [pc EXCEPT ![p] = label]
    /\ UNCHANGED started
    /\ Conc

Return(p) ==
    /\ pc' = [pc EXCEPT ![p] = "idle"]
    /\ loc' = [loc EXCEPT ![p] = NoLocal]
    /\ UNCHANGED started
    /\ Conc

DbUnchanged == UNCHANGED <<logs, nextId, balance, deposits, debits>>

\* qr_scan_entry, line 461, first statement of the pass: the bulk update
ScanClose(p, qr_code) ==
    /\ Start(p, "scan_delete")
    /\ logs' = AutoClose(logs, now)
    /\ loc' = [loc EXCEPT ![p] = [NoLocal EXCEPT !.v = qr_code, !.t = now]]
    /\ UNCHANGED <<nextId, balance, deposits, debits>>

\* second statement of the pass: the bulk delete, with the pass's own now
ScanDelete(p) ==
    /\ pc[p] = "scan_delete"
    /\ logs' = DeleteOld(logs, loc[p].t, DEFAULT_DELETE_AFTER_MINUTES)
    /\ IF loc[p].v \in Vehicles
          THEN Goto(p, "scan_wallet") /\ UNCHANGED loc
          ELSE Return(p)
    /\ UNCHANGED <<nextId, balance, deposits, debits>>

\* line 490: Wallet.objects.get_or_create loads the wallet row
ScanWallet(p) ==
    /\ pc[p] = "scan_wallet"
    /\ loc' = [loc EXCEPT ![p].bal = balance[loc[p].v]]
    /\ Goto(p, "scan_active")
    /\ DbUnchanged

\* lines 493-511: now, the active_log query and the departure branch
ScanActive(p) ==
    /\ pc[p] = "scan_active"
    /\ IF ScanOutcome(FirstActive(logs, loc[p].v) # {}, Null, 0, now) = "unexpected"
          THEN Return(p)
          ELSE Goto(p, "scan_recent") /\ loc' = [loc EXCEPT ![p].t = now]
    /\ DbUnchanged

\* lines 516-535: the recent_entry query and the three checks
ScanRecent(p) ==
    LET kind == ScanOutcome(FALSE, RecentEntry(logs, loc[p].v), loc[p].bal, loc[p].t)
    IN  /\ pc[p] = "scan_recent"
        /\ Inserts(kind) => nextId <= MaxLogs
        /\ CASE kind = "success" -> Goto(p, "scan_save") /\ UNCHANGED loc
             [] kind = "insufficient" -> Goto(p, "scan_insufficient") /\ UNCHANGED loc
             [] OTHER -> Return(p)
        /\ DbUnchanged

\* lines 536-537: wallet.save()
ScanSave(p) ==
    /\ pc[p] = "scan_save"
    /\ balance' = WalletSave(balance, loc[p].v, loc[p].bal)
    /\ debits' = [debits EXCEPT ![loc[p].v] = @ + 1]
    /\ Goto(p, "scan_insert")
    /\ UNCHANGED <<logs, nextId, deposits, loc>>

\* lines 539-545: EntryLog.objects.create(status=success)
ScanInsert(p) ==
    /\ pc[p] = "scan_insert"
    /\ logs' = logs \cup {EntryLog(nextId, loc[p].v, terminal_fee, STATUS_SUCCESS, now)}
    /\ nextId' = nextId + 1
    /\ Return(p)
    /\ UNCHANGED <<balance, deposits, debits>>

\* lines 539-545 and 567-572: the INSERT raises (the database refuses or
\* loses the statement); the handler answers "Unexpected error".  The wallet
\* row written at line 537 was committed on its own and stays as written.
ScanInsertFails(p) ==
    /\ pc[p] = "scan_insert"
    /\ Return(p)
    /\ DbUnchanged

\* lines 553-559: EntryLog.objects.create(status=insufficient)
ScanInsufficient(p) ==
    /\ pc[p] = "scan_insufficient"
    /\ logs' = logs \cup {EntryLog(nextId, loc[p].v, terminal_fee, STATUS_INSUFFICIENT, now)}
    /\ nextId' = nextId + 1
    /\ Return(p)
    /\ UNCHANGED <<balance, deposits, debits>>

\* ajax_add_deposit, lines 869-874: the vehicle, its wallet, the amount
DepositLoad(p, vehicle_id, amount) ==
    /\ IF vehicle_id \in Vehicles /\ AmountValid(amount)
          THEN /\ Start(p, "deposit_create")
               /\ loc' = [loc EXCEPT ![p] = [NoLocal EXCEPT !.v = vehicle_id,
                                             !.amount = amount,
                                             !.bal = balance[vehicle_id]]]
          ELSE Start(p, "idle") /\ UNCHANGED loc
    /\ DbUnchanged

\* line 876: Deposit.objects.create, one transaction
DepositCommit(p) ==
    /\ pc[p] = "deposit_create"
    /\ \E suffix \in SuffixChoices(deposits) :
          IF ReferenceTaken(deposits, reference_number(now, suffix))
          THEN UNCHANGED <<deposits, balance>>
          ELSE /\ deposits' = DepositCreate(deposits, loc[p].v, loc[p].amount,
                                            reference_number(now, suffix))
               /\ balance' = DepositSave(balance, loc[p].v, loc[p].amount,
                                         loc[p].bal)
    /\ Return(p)
    /\ UNCHANGED <<logs, nextId, debits>>

\* qr_exit_validation, lines 596-602: the active_log query
ExitRead(p, qr_code) ==
    /\ qr_code \in Vehicles
    /\ \E active_log \in FirstActive(logs, qr_code) :
          /\ loc' = [loc EXCEPT ![p] = [NoLocal EXCEPT !.v = qr_code,
                                        !.id = active_log.id]]
          /\ Start(p, "exit_save")
    /\ DbUnchanged

\* lines 604-606: save(update_fields=...) is an UPDATE of the row with that
\* primary key; when the row is gone it raises and nothing is stored.
ExitSave(p) ==
    /\ pc[p] = "exit_save"
    /\ logs' = {IF r.id = loc[p].id
                   THEN [r EXCEPT !.is_active = FALSE, !.departed_at = now]
                   ELSE r : r \in logs}
    /\ Return(p)
    /\ UNCHANGED <<nextId, balance, deposits, debits>>

\* a staff queue view: the pass takes its now (line 29) and looks for
\* overdue rows (exists), then the bulk update, then the bulk delete
SweepStart(p) ==
    /\ Start(p, "sweep_close")
    /\ loc' = [loc EXCEPT ![p] = [NoLocal EXCEPT !.t = now]]
    /\ DbUnchanged

SweepClose(p) ==
    /\ pc[p] = "sweep_close"
    /\ logs' = AutoClose(logs, loc[p].t)
    /\ Goto(p, "sweep_delete")
    /\ UNCHANGED <<loc, nextId, balance, deposits, debits>>

SweepDelete(p) ==
    /\ pc[p] = "sweep_delete"
    /\ logs' = DeleteOld(logs, loc[p].t, DEFAULT_DELETE_AFTER_MINUTES)
    /\ Return(p)
    /\ UNCHANGED <<nextId, balance, deposits, debits>>

NextConc ==
    \/ \E p \in Procs, qr_code \in Tokens : ScanClose(p, qr_code)
    \/ \E p \in Procs : ScanDelete(p)
    \/ \E p \in Procs : ScanWallet(p)
    \/ \E p \in Procs : ScanActive(p)
    \/ \E p \in Procs : ScanRecent(p)
    \/ \E p \in Procs : ScanSave(p)
    \/ \E p \in Procs : ScanInsert(p)
    \/ \E p \in Procs : ScanInsertFails(p)
    \/ \E p \in Procs : ScanInsufficient(p)
    \/ \E p \in Procs, vehicle_id \in Tokens, amount \in AmountChoices :
          DepositLoad(p, vehicle_id, amount)
    \/ \E p \in Procs : DepositCommit(p)
    \/ \E p \in Procs, qr_code \in Tokens : ExitRead(p, qr_code)
    \/ \E p \in Procs : ExitSave(p)
    \/ \E p \in Procs : SweepStart(p)
    \/ \E p \in Procs : SweepClose(p)
    \/ \E p \in Procs : SweepDelete(p)
    \/ Clock /\ now' <= DEFAULT_DELETE_AFTER_MINUTES + MaxLate /\ UNCHANGED last

SpecConc == Init /\ [][NextConc]_vars

(* ============================== claims ================================ *)
RECURSIVE SumAmounts(_, _)
SumAmounts(D, v) ==
    IF D = <<>> THEN 0
    ELSE (IF Head(D).wallet = v THEN Head(D).amount ELSE 0) + SumAmounts(Tail(D), v)

\* The step is a qr_scan_entry POST with the token of vehicle v.
ScanOf(v) == last'.op = "qr_scan_entry" /\ last'.v = v

\* Less than the cooldown has passed since a stored successful entry of v.
InCooldown(L, v, t) ==
    \E r \in L : /\ r.vehicle = v
                 /\ r.status = STATUS_SUCCESS
                 /\ t - r.created_at < entry_cooldown_minutes

\* The rows a step has inserted.
NewRows == {r \in logs' : r.id >= nextId}

\* C1: with concurrent qr_scan_entry requests for one vehicle, no state has
\* two EntryLog rows of that vehicle with is_active = true.
C1_NoTwoActiveRows ==
    \A r1, r2 \in logs :
        (r1.vehicle = r2.vehicle /\ r1.is_active /\ r2.is_active) => r1.id = r2.id

\* C2: under every interleaving of deposits and entry scans the stored
\* wallet balance is never negative.
C2_BalanceNeverNegative == \A v \in Vehicles : balance[v] >= 0

\* The wallet was both credited by a deposit and debited by a scan, and the
\* stored balance sits at zero.
C2_Witness ==
    \E v \in Vehicles :
        /\ debits[v] >= 1
        /\ SumAmounts(deposits, v) > 0
        /\ balance[v] = 0

\* C3: when the balance covers the fee exactly once and nothing is
\* deposited, at most one scan debits the fee and records a successful entry.
C3_OneDebitWhenOneFeeCovered ==
    \A v \in Vehicles :
        (/\ terminal_fee <= balance0[v]
         /\ balance0[v] < 2 * terminal_fee
         /\ SumAmounts(deposits, v) = 0)
        => debits[v] <= 1

C5_OneActivePerVehicle ==
    \A v \in Vehicles : Cardinality(ActiveLogs(logs, v)) <= 1

\* A vehicle that left and entered again.
C5_Witness ==
    \E r, q \in logs :
        /\ r.vehicle = q.vehicle
        /\ q.id < r.id
        /\ ~q.is_active
        /\ r.is_active

\* C6: a scan of a vehicle that is outside, not in cooldown, with a balance
\* of at least min_deposit_amount and terminal_fee answers success, takes
\* exactly terminal_fee from the wallet and inserts exactly one row, for that
\* vehicle, with status success, is_active true and fee_charged terminal_fee.
C6_EntryChargesFeeOnce ==
    [][\A v \in Vehicles :
        (/\ ScanOf(v)
         /\ ActiveLogs(logs, v) = {}
         /\ ~InCooldown(logs, v, now)
         /\ balance[v] >= min_deposit_amount
         /\ balance[v] >= terminal_fee)
        => (/\ last'.status = "success"
            /\ last'.balance = balance[v] - terminal_fee
            /\ balance'[v] = balance[v] - terminal_fee
            /\ \E r \in logs' :
                  /\ NewRows = {r}
                  /\ r.vehicle = v
                  /\ r.status = STATUS_SUCCESS
                  /\ r.is_active
                  /\ r.fee_charged = terminal_fee)]_vars

\* Scenario B: balance 200, minimum 100, fee 50; the scan succeeded and the
\* balance is 150 with one active row.
C6_Witness ==
    /\ last.op = "qr_scan_entry"
    /\ last.kind = "success"
    /\ min_deposit_amount = 100
    /\ terminal_fee = 50
    /\ balance0["v1"] = 200
    /\ balance["v1"] = 150
    /\ \E r \in logs : r.is_active /\ r.status = STATUS_SUCCESS /\ r.created_at = now

\* C7: a scan of a vehicle that has an active row (not yet overdue) is an
\* exit: the row is stored inactive with departed_at = now, the answer is
\* success, no row is inserted and the balance is unchanged.
C7_RescanIsExit ==
    [][\A v \in Vehicles :
        (/\ ScanOf(v)
         /\ \E r \in ActiveLogs(logs, v) :
               r.created_at > now - departure_duration_minutes)
        => (/\ last'.status = "success"
            /\ \A r \in ActiveLogs(logs, v) :
                  \E q \in logs' :
                     q.id = r.id /\ ~q.is_active /\ q.departed_at = now
            /\ NewRows = {}
            /\ balance' = balance)]_vars

\* C8 as stated: a scan of a vehicle that is outside with a balance below
\* min_deposit_amount gets the below-minimum error, inserts no success row
\* and leaves the balance unchanged.
C8_BelowMinimumRejected ==
    [][\A v \in Vehicles :
        (/\ ScanOf(v)
         /\ ActiveLogs(logs, v) = {}
         /\ balance[v] < min_deposit_amount)
        => (/\ last'.kind = "below_min"
            /\ \A r \in NewRows : r.status # STATUS_SUCCESS
            /\ balance' = balance)]_vars

\* C8 amended: the same for a vehicle that is outside and not in cooldown
\* (the cooldown check comes first and answers for a vehicle in cooldown).
C8_BelowMinimumOutsideCooldown ==
    [][\A v \in Vehicles :
        (/\ ScanOf(v)
         /\ ActiveLogs(logs, v) = {}
         /\ ~InCooldown(logs, v, now)
         /\ balance[v] < min_deposit_amount)
        => (/\ last'.kind = "below_min"
            /\ last'.status = "error"
            /\ \A r \in NewRows : r.status # STATUS_SUCCESS
            /\ balance' = balance)]_vars

\* The below-minimum error was given although the balance covers the fee.
C8_Witness ==
    /\ last.op = "qr_scan_entry"
    /\ last.kind = "below_min"
    /\ last.v \in Vehicles
    /\ balance[last.v] >= terminal_fee
    /\ balance[last.v] < min_deposit_amount

\* C9: a vehicle that entered successfully and left, scanned again while
\* less than entry_cooldown_minutes have passed since its latest successful
\* entry, gets the cooldown error; no row is inserted, the balance is
\* unchanged.
C9_CooldownRejectsReentry ==
    [][\A v \in Vehicles :
        (/\ ScanOf(v)
         /\ ActiveLogs(logs, v) = {}
         /\ InCooldown(logs, v, now))
        => (/\ last'.kind = "cooldown"
            /\ NewRows = {}
            /\ balance' = balance)]_vars

\* C10: two successful entries of a vehicle are at least
\* entry_cooldown_minutes apart, whatever the settings.
C10_EntriesCooldownApart ==
    [][\A v \in Vehicles :
        (debits'[v] > debits[v] /\ charged_at[v] # Null)
        => now - charged_at[v] >= entry_cooldown_minutes]_vars

\* C11: a scan of a vehicle that is outside, not in cooldown, whose balance
\* passes the minimum but is below terminal_fee answers insufficient balance,
\* leaves the balance unchanged and inserts one row with status
\* insufficient, fee_charged terminal_fee and is_active false.
C11_InsufficientRowInactive ==
    [][\A v \in Vehicles :
        (/\ ScanOf(v)
         /\ ActiveLogs(logs, v) = {}
         /\ ~InCooldown(logs, v, now)
         /\ balance[v] >= min_deposit_amount
         /\ balance[v] < terminal_fee)
        => (/\ last'.kind = "insufficient"
            /\ last'.status = "error"
            /\ balance' = balance
            /\ \E r \in logs' :
                  /\ NewRows = {r}
                  /\ r.vehicle = v
                  /\ r.status = STATUS_INSUFFICIENT
                  /\ r.fee_charged = terminal_fee
                  /\ ~r.is_active)]_vars

\* C12: the debit and the success row that records it are durable together:
\* a request that has written the wallet ends either with its success row
\* inserted or with the debit undone.
C12_DebitAndRowTogether ==
    [][\A p \in Procs :
        (pc[p] = "scan_insert" /\ pc'[p] = "idle")
        => (\/ \E r \in NewRows :
                  r.vehicle = loc[p].v /\ r.status = STATUS_SUCCESS
            \/ balance'[loc[p].v] = balance[loc[p].v] + terminal_fee)]_vars

\* The step is a maintenance sweep: a queue view of the staff or of the
\* public board, which runs the pass and then reads.
Sweep == last'.op \in {"queue_data", "public_queue_view"}

\* C13: with departure_duration_minutes = 30, a sweep run 31 minutes after an
\* active row was created leaves that row in the table, stored with
\* is_active false and departed_at equal to the sweep's now.
C13_ExpiredRowClosedAndKept ==
    [][\A r \in logs :
        (/\ Sweep
         /\ departure_duration_minutes = 30
         /\ r.is_active
         /\ now = r.created_at + 31)
        => \E q \in logs' :
              /\ q.id = r.id
              /\ ~q.is_active
              /\ q.departed_at = now]_vars

\* C14: right after a maintenance pass run at now, no row is active with
\* created_at + departure_duration_minutes <= now, so every entry a staff
\* queue view lists has a departure time later than now.
C14_NoOverdueActiveAfterPass ==
    [][(Sweep \/ last'.op = "qr_scan_entry")
        => \A r \in logs' :
              r.is_active => r.created_at + departure_duration_minutes > now]_vars

\* A sweep has just closed a row whose stay ran out at this very minute.
C14_Witness ==
    /\ last.op = "queue_data"
    /\ \E r \in logs :
          /\ ~r.is_active
          /\ r.departed_at = now
          /\ r.created_at + departure_duration_minutes = now

\* C15: a sweep run again at once (same now, same settings, nothing in
\* between) changes nothing: the table a sweep leaves is the table a second
\* sweep leaves, row for row.
C15_SweepIdempotent ==
    [][/\ last'.op = "queue_data"
          => _apply_auto_close_and_cleanup(logs', now) = logs'
       /\ last'.op = "public_queue_view"
          => _maintenance_task(logs', now) = logs']_vars

\* A sweep past the delete window has closed a row and kept it.
C15_Witness ==
    /\ last.op \in {"queue_data", "public_queue_view"}
    /\ now > DEFAULT_DELETE_AFTER_MINUTES
    /\ \E r \in logs : ~r.is_active /\ r.departed_at = now

\* Request p runs the bulk update of a pass / ends a pass with its bulk
\* delete (a queue view's pass or the pass a scan runs first).
ClosingStep(p) ==
    \/ pc[p] = "sweep_close" /\ pc'[p] = "sweep_delete"
    \/ pc[p] = "idle" /\ pc'[p] = "scan_delete"

DeletingStep(p) ==
    /\ pc[p] \in {"sweep_delete", "scan_delete"}
    /\ pc'[p] # pc[p]

\* C16: passes that overlap leave what a single pass leaves.  A row is
\* closed once: the bulk update of a pass stamps the overdue active rows and
\* touches no row that is already closed, whichever pass closed it.  And
\* when a pass ends, the table is one a single pass at that pass's now
\* leaves as it is: nothing it should have processed is left, whatever the
\* other pass did in between.
C16_OverlappingPassesAsOne ==
    [][\A p \in Procs :
        /\ ClosingStep(p)
           => \A r \in logs :
                 IF r.is_active /\ r.created_at + departure_duration_minutes <= loc'[p].t
                    THEN [r EXCEPT !.is_active = FALSE,
                                   !.departed_at = loc'[p].t] \in logs'
                    ELSE r \in logs'
        /\ DeletingStep(p)
           => /\ _apply_auto_close_and_cleanup(logs', loc[p].t) = logs'
              /\ \A r \in logs \ logs' :
                    /\ ~r.is_active \/ r.departed_at # Null
                    /\ r.created_at < loc[p].t - DEFAULT_DELETE_AFTER_MINUTES]_vars

\* Two passes overlap: both are between their update and their delete, and
\* a row closed by one of them is in the table.
C16_Witness ==
    /\ \A p \in Procs : pc[p] = "sweep_delete"
    /\ \E r \in logs, p \in Procs :
          /\ ~r.is_active
          /\ r.departed_at = loc[p].t
          /\ r.created_at + departure_duration_minutes <= loc[p].t

\* C17: the delete step of a pass at now removes exactly the rows that, when
\* the step runs (after the auto-close step of the same pass), have
\* created_at < now - 10 and are inactive or have a departed_at, and keeps
\* every other row; an inactive row that departed 11 minutes ago is removed
\* and the row count drops.
C17_DeletesExactlyOldClosedRows ==
    [][Sweep =>
        /\ logs' \subseteq AutoClose(logs, now)
        /\ \A r \in AutoClose(logs, now) :
              r \notin logs'
              <=> (/\ r.created_at < now - DEFAULT_DELETE_AFTER_MINUTES
                   /\ (~r.is_active \/ r.departed_at # Null))
        /\ \A r \in logs :
              (~r.is_active /\ r.departed_at = now - 11)
              => /\ \A q \in logs' : q.id # r.id
                 /\ Cardinality(logs') < Cardinality(logs)]_vars

\* Eleven minutes on, a sweep has run and the one row ever created, at
\* minute 0, is gone.
C17_Witness ==
    /\ last.op \in {"queue_data", "public_queue_view"}
    /\ now = DEFAULT_DELETE_AFTER_MINUTES + 1
    /\ nextId = 2
    /\ logs = {}

\* C18: no pass deletes a row that is active when the delete step runs: a
\* row that is active and whose stay has not run out is still in the table
\* after any step, also after update_departure_time has been used on it.
C18_ActiveRowNeverDeleted ==
    [][\A r \in logs :
        (r.is_active /\ r.created_at + departure_duration_minutes > now)
        => \E q \in logs' : q.id = r.id]_vars

\* C19: a queue read model changes no wallet and no deposit and creates no
\* row; all it does to the EntryLog table is the maintenance pass it runs
\* first: every row it leaves is a row that was there, as it was or closed
\* by the pass because its stay had run out.
C19_ReadModelsOnlyMaintain ==
    [][Sweep =>
        /\ balance' = balance
        /\ deposits' = deposits
        /\ nextId' = nextId
        /\ NewRows = {}
        /\ \A q \in logs' :
              \/ q \in logs
              \/ \E r \in logs :
                    /\ r.is_active
                    /\ r.created_at + departure_duration_minutes <= now
                    /\ q = [r EXCEPT !.is_active = FALSE, !.departed_at = now]]_vars

\* A queue view was served with a vehicle inside and a wallet that has
\* been credited and debited.
C19_Witness ==
    /\ last.op \in {"queue_data", "public_queue_view"}
    /\ \E r \in logs : r.is_active /\ r.status = STATUS_SUCCESS
    /\ \E v \in Vehicles : debits[v] >= 1 /\ SumAmounts(deposits, v) > 0

\* C20: the staff live queue lists all rows with is_active = true and
\* nothing else, newest first by created_at, each with departure_time =
\* created_at + departure_duration_minutes.
C20_QueueListsAllActive ==
    [][last'.op = "queue_data" =>
        LET queue == last'.queue
            entries == last'.entries
            inside == {r.id : r \in {q \in logs' : q.is_active}}
        IN  /\ {queue[i].id : i \in 1..Len(queue)} = inside
            /\ {entries[i].id : i \in 1..Len(entries)} = inside
            /\ \A i, j \in 1..Len(queue) :
                  i < j => queue[i].entry_time >= queue[j].entry_time
            /\ \A i \in 1..Len(queue) :
                  queue[i].departure_time =
                     queue[i].entry_time + departure_duration_minutes]_vars

\* The ids the public board lists in the response just served.
ListedIds == {last'.entries[i].id : i \in 1..Len(last'.entries)}

ExitResults(L, v, t) == {MarkInactive(L, a, t) : a \in FirstActive(L, v)}

\* C22: for a vehicle with an active row (not yet overdue), a scan through
\* qr_scan_entry makes the transition qr_exit_validation makes from the
\* same state: the active row stored inactive with departed_at = now, the
\* same set of rows otherwise, and every balance unchanged.
C22_RescanSameAsExit ==
    [][\A v \in Vehicles :
        (/\ ScanOf(v)
         /\ \E r \in ActiveLogs(logs, v) :
               r.created_at > now - departure_duration_minutes)
        => (/\ logs' \in ExitResults(logs, v, now)
            /\ balance' = balance)]_vars

\* C23: qr_exit_validation for a vehicle with no active row answers the
\* not-inside error and changes nothing; for a vehicle with an active row
\* it stores that row with is_active = false and departed_at = now, leaves
\* every other row and every balance as they were, and answers success.
C23_ExitClosesOrRejects ==
    [][\A v \in Vehicles :
        (last'.op = "qr_exit_validation" /\ last'.v = v)
        => IF ActiveLogs(logs, v) = {}
           THEN /\ last'.status = "error"
                /\ last'.kind = "not_inside"
                /\ logs' = logs
                /\ balance' = balance
           ELSE /\ last'.status = "success"
                /\ balance' = balance
                /\ \E r \in ActiveLogs(logs, v) :
                      logs' = (logs \ {r}) \cup
                                 {[r EXCEPT !.is_active = FALSE,
                                            !.departed_at = now]}]_vars

\* qr_exit_validation has just closed the active row of a vehicle some
\* minutes after its entry.
C23_Witness ==
    /\ last.op = "qr_exit_validation"
    /\ last.kind = "departed"
    /\ \E r \in logs :
          /\ r.id = last.id
          /\ ~r.is_active
          /\ r.departed_at = now
          /\ r.created_at < now

\* C24: a scan whose token is empty or matches no vehicle answers an error
\* with a null balance; it debits no wallet, creates no wallet, inserts no
\* row, and the stored rows are exactly what the maintenance pass that
\* precedes the scan logic leaves.
C24_UnknownTokenChangesNothing ==
    [][(last'.op = "qr_scan_entry" /\ last'.v \notin Vehicles)
        => (/\ last'.status = "error"
            /\ last'.balance = Null
            /\ balance' = balance
            /\ DOMAIN balance' = DOMAIN balance
            /\ debits' = debits
            /\ NewRows = {}
            /\ logs' = _apply_auto_close_and_cleanup(logs, now))]_vars

\* A scan with an unknown or empty token was answered while a vehicle with
\* money in its wallet was inside.
C24_Witness ==
    /\ last.op = "qr_scan_entry"
    /\ last.kind \in {"invalid", "empty"}
    /\ \E r \in logs : r.is_active /\ balance[r.vehicle] >= terminal_fee

\* C25: every scan attempt inserts an EntryLog row, the failed ones too: a
\* scan answered as an invalid token, as below the minimum deposit, as
\* insufficient balance or as a successful entry inserts exactly one row.
C25_RowForEveryScanAttempt ==
    [][(/\ last'.op = "qr_scan_entry"
        /\ last'.kind \in {"empty", "invalid", "below_min", "insufficient",
                            "success"})
        => Cardinality(NewRows) = 1]_vars

\* C26: a Deposit credits its wallet exactly once. The step that creates a
\* Deposit of amount a for wallet w stores the row and raises the balance
\* of w by exactly a, together; a step that saves a stored Deposit again
\* leaves every balance and the Deposit rows as they were.
C26_DepositCreditsOnce ==
    [][/\ (last'.op \in {"ajax_add_deposit", "deposit_menu", "ajax_deposit"}
           /\ last'.kind = "ok")
          => (/\ Len(deposits') = Len(deposits) + 1
              /\ SubSeq(deposits', 1, Len(deposits)) = deposits
              /\ LET d == deposits'[Len(deposits')]
                 IN  balance' = [balance EXCEPT ![d.wallet] = @ + d.amount])
       /\ (last'.op = "deposit_change" /\ last'.kind = "ok")
          => (balance' = balance /\ deposits' = deposits)]_vars

\* A stored Deposit was saved again and the wallet holds its starting
\* balance plus that one deposit.
C26_Witness ==
    /\ last.op = "deposit_change"
    /\ last.kind = "ok"
    /\ Len(deposits) = 1
    /\ debits[last.v] = 0
    /\ balance[last.v] = balance0[last.v] + deposits[1].amount

\* C27: a credit request whose amount is not positive, or whose vehicle (for
\* ajax_deposit, driver) does not exist, is refused with an error by each
\* deposit endpoint (deposit_menu, ajax_add_deposit, ajax_deposit): no
\* Deposit row is created and every balance stays as it was.
C27_BadDepositRejected ==
    [][last'.op \in {"deposit_menu", "ajax_add_deposit", "ajax_deposit"} =>
       \A amount \in SignedAmounts :
         /\ \A vehicle_id \in Tokens :
               (/\ amount <= 0 \/ vehicle_id \notin Vehicles
                /\ last'.op # "ajax_deposit"
                /\ \/ deposit_menu(vehicle_id, amount)
                   \/ ajax_add_deposit(vehicle_id, amount))
               => (/\ last'.status = "error"
                   /\ deposits' = deposits
                   /\ balance' = balance)
         /\ \A driver_id \in DriverTokens :
               (/\ amount <= 0 \/ driver_id \notin Drivers
                /\ last'.op = "ajax_deposit"
                /\ ajax_deposit(driver_id, amount))
               => (/\ last'.status = "error"
                   /\ deposits' = deposits
                   /\ balance' = balance)]_vars

\* A deposit endpoint has refused a request for an existing vehicle, with a
\* Deposit already stored for it.
C27_Witness ==
    /\ last.op \in {"deposit_menu", "ajax_add_deposit", "ajax_deposit"}
    /\ last.kind = "invalid"
    /\ last.v \in Vehicles
    /\ Len(deposits) >= 1

\* C28: round trip. A wallet that starts at b, receives one deposit of
\* amount a and pays for one successful entry while terminal_fee = a holds
\* b again.
C28_DepositThenEntryRestores ==
    \A v \in Vehicles :
       (/\ Len(deposits) = 1
        /\ deposits[1].wallet = v
        /\ deposits[1].amount = terminal_fee
        /\ debits[v] = 1)
       => balance[v] = balance0[v]

\* A vehicle that was credited the fee has just entered successfully, its
\* only entry after its only deposit.
C28_Witness ==
    /\ last.op = "qr_scan_entry"
    /\ last.kind = "success"
    /\ Len(deposits) = 1
    /\ deposits[1].wallet = last.v
    /\ deposits[1].amount = terminal_fee
    /\ debits[last.v] = 1
    /\ charged_at[last.v] = now
    /\ balance[last.v] = balance0[last.v]

\* The money side of leaving: a step that takes vehicle v from INSIDE to
\* OUTSIDE keeps every balance and the fee_charged of every row it keeps.
LeavingKeepsMoney(v) ==
    (ActiveLogs(logs, v) # {} /\ ActiveLogs(logs', v) = {})
    => (/\ balance' = balance
        /\ \A r \in logs : \A q \in logs' :
              q.id = r.id => q.fee_charged = r.fee_charged)

\* C29: leaving never touches money and is never refused. Every step that
\* takes a vehicle from INSIDE to OUTSIDE (exit scan, explicit exit,
\* mark_departed, auto-close) leaves all balances and fee_charged values
\* unchanged, and an exit asked for an INSIDE vehicle, by a scan or by
\* qr_exit_validation, succeeds whatever its balance and cooldown are.
C29_LeavingFreeAndNeverRefused ==
    [][\A v \in Vehicles :
        /\ LeavingKeepsMoney(v)
        /\ (/\ last'.op \in {"qr_scan_entry", "qr_exit_validation"}
            /\ last'.v = v
            /\ \E r \in ActiveLogs(logs, v) :
                  r.created_at > now - departure_duration_minutes)
           => (last'.status = "success" /\ ActiveLogs(logs', v) = {})]_vars

\* The last instant of the modelled clock.
Horizon == Max(Instants)

RowActive(i) == \E r \in logs : r.id = i /\ r.is_active

\* C30: with sweeps scheduled fairly and the clock advancing, every vehicle
\* that is INSIDE becomes OUTSIDE without any scan or staff action: each
\* active row whose expiry the clock reaches stops being active. A stay
\* never resumes: a row that is no longer active is never active again,
\* so a vehicle alternates OUTSIDE, INSIDE, OUTSIDE.
C30_InsideEventuallyOutside ==
    /\ \A i \in 1..MaxLogs :
          (\E r \in logs : /\ r.id = i
                            /\ r.is_active
                            /\ r.created_at + departure_duration_minutes <= Horizon)
          ~> ~RowActive(i)
    /\ [][\A r \in logs : \A q \in logs' :
            (q.id = r.id /\ ~r.is_active) => ~q.is_active]_vars

\* A sweep served by queue_data has just closed the overdue row of a
\* vehicle that entered and was then left alone: it is OUTSIDE again.
C30_Witness ==
    /\ last.op = "queue_data"
    /\ \E v \in Vehicles :
          /\ ActiveLogs(logs, v) = {}
          /\ debits[v] = 1
          /\ \E r \in logs :
                /\ r.vehicle = v
                /\ r.status = STATUS_SUCCESS
                /\ ~r.is_active
                /\ r.departed_at = now
                /\ r.created_at = charged_at[v]
                /\ r.created_at + departure_duration_minutes <= now

\* C31: after any sequence of registrations and plate changes, the token of
\* every stored vehicle is the value derived from its id and its current
\* plate, no two vehicles share a token, and the case-insensitive lookup
\* of the scan resolves any token to at most one vehicle.
C31_TokenDerivedAndUnique ==
    /\ \A i \in 1..Len(registry) :
          registry[i].qr_value = expected_qr_value(i, registry[i].license_plate)
    /\ \A i, j \in 1..Len(registry) :
          i # j => Upper(registry[i].qr_value) # Upper(registry[j].qr_value)
    /\ last.op = "qr_lookup" => Cardinality(last.found) <= 1

\* Two vehicles are stored whose plates differ only by a blank against a
\* hyphen, and a submitted token has just been resolved to one of them.
C31_Witness ==
    /\ Len(registry) = 2
    /\ ReplaceSpaces(registry[1].license_plate)
          = ReplaceSpaces(registry[2].license_plate)
    /\ last.op = "qr_lookup"
    /\ Cardinality(last.found) = 1

\* C32: a credit is never lost to a collision of reference numbers. Every
\* request with an existing vehicle and an amount > 0, at any of the
\* deposit endpoints, stores one more Deposit, and the reference numbers
\* of the stored Deposits are pairwise different.
C32_CreditNeverLostToCollision ==
    [][(/\ last'.op \in {"ajax_add_deposit", "deposit_menu", "ajax_deposit"}
        /\ last'.kind \notin {"invalid", "not_found"})
        => (/\ Len(deposits') = Len(deposits) + 1
            /\ \A i, j \in 1..Len(deposits') :
                  i # j => deposits'[i].reference_number
                             # deposits'[j].reference_number)]_vars

\* C33: the entry checks run in the order active row, cooldown, minimum
\* balance, fee, and the first that fails decides: a scan of a vehicle that
\* is INSIDE (its active row not yet overdue) never gets the cooldown error
\* or a balance error, and a scan of a vehicle that is OUTSIDE, in cooldown
\* and below min_deposit_amount gets the cooldown error.
C33_FirstFailingCheckDecides ==
    [][\A v \in Vehicles :
        ScanOf(v) =>
          /\ (\E r \in ActiveLogs(logs, v) :
                 r.created_at > now - departure_duration_minutes)
             => last'.kind \notin {"cooldown", "below_min", "insufficient"}
          /\ (/\ ActiveLogs(logs, v) = {}
              /\ InCooldown(logs, v, now)
              /\ balance[v] < min_deposit_amount)
             => last'.kind = "cooldown"]_vars

\* C34: ledger conservation under interleaving. Whenever no request is in
\* flight, the balance of every wallet is its starting balance plus the
\* amounts of its stored deposits minus terminal_fee for every debit a scan
\* has made; so a deposit of a and a successful entry charging f that
\* overlap on a wallet holding b leave b + a - f.
C34_LedgerConserved ==
    (\A p \in Procs : pc[p] = "idle")
    => \A v \in Vehicles :
          balance[v] = balance0[v] + SumAmounts(deposits, v)
                          - debits[v] * terminal_fee

\* C35: the two departure fields of an EntryLog row agree in every reachable
\* state: a row with is_active = TRUE has departed_at null, and a row that
\* is no longer active (closed by an exit, by staff or by the auto-close
\* sweep) has departed_at set.
C35_DepartureFieldsAgree ==
    \A r \in logs :
        /\ r.is_active => r.departed_at = Null
        /\ ~r.is_active => r.departed_at # Null

\* C36: a scan of a vehicle whose active entry is overdue (created_at +
\* departure_duration_minutes <= now) is never handled as an exit of that
\* entry: the pass closes the entry first (is_active = FALSE, departed_at =
\* now, if the row is kept) and the scan is answered as an entry attempt,
\* by the cooldown, minimum-balance and fee checks.
C36_OverdueScanIsEntryAttempt ==
    [][\A v \in Vehicles :
        (/\ ScanOf(v)
         /\ ActiveLogs(logs, v) # {}
         /\ \A r \in ActiveLogs(logs, v) :
               r.created_at + departure_duration_minutes <= now)
        => /\ last'.kind \in {"cooldown", "below_min", "success", "insufficient"}
           /\ \A r \in ActiveLogs(logs, v) : \A q \in logs' :
                 q.id = r.id => ~q.is_active /\ q.departed_at = now]_vars

\* A scan has been answered as a successful entry at the minute an earlier
\* stay of the vehicle ran out: the old row is closed at this minute and a
\* new active row was created.
C36_Witness ==
    /\ last.op = "qr_scan_entry"
    /\ last.kind = "success"
    /\ \E r, q \in logs :
          /\ r.vehicle = last.v /\ q.vehicle = last.v
          /\ ~r.is_active
          /\ r.departed_at = now
          /\ r.created_at + departure_duration_minutes <= now
          /\ q.is_active /\ q.created_at = now /\ q.id > r.id

\* C37: the staff overrides act only on active entries. mark_departed or
\* update_departure_time on an id with no active row answers failure and
\* changes no row; mark_departed on an active row sets is_active = FALSE
\* and departed_at = now; update_departure_time on an active row changes
\* only its departed_at; neither changes any other row or any balance.
C37_OverridesOnlyOnActive ==
    [][last'.op \in {"mark_departed", "update_departure_time"} =>
         LET log == {r \in logs : r.id = last'.id /\ r.is_active}
             others == {r \in logs : r.id # last'.id}
         IN  /\ balance' = balance
             /\ {r \in logs' : r.id # last'.id} = others
             /\ log = {} => last'.status = "error" /\ logs' = logs
             /\ last'.status = "error" => logs' = logs
             /\ (log # {} /\ last'.op = "mark_departed") =>
                   /\ last'.status = "success"
                   /\ \A r \in log :
                         logs' = others \cup
                           {[r EXCEPT !.is_active = FALSE, !.departed_at = now]}
             /\ (log # {} /\ last'.op = "update_departure_time"
                          /\ last'.status = "success") =>
                   \A r \in log : \E q \in logs' :
                         /\ q.departed_at # Null
                         /\ q = [r EXCEPT !.departed_at = q.departed_at]
                         /\ logs' = others \cup {q}]_vars

\* An override has been refused for a row that exists but is closed.
C37_Witness ==
    /\ last.op \in {"mark_departed", "update_departure_time"}
    /\ last.kind = "not_found"
    /\ \E r \in logs : r.id = last.id /\ ~r.is_active

\* C38: after a vehicle has left at t (by an exit, by mark_departed or by
\* the auto-close sweep, that of the board query itself included), every
\* board query at a time in [t, t + DEPARTED_VISIBLE_MINUTES], without a
\* route filter or with the vehicle's route, lists its entry as recently
\* departed.
C38_DepartedShownWhileVisible ==
    [][(last'.op = "public_queue_view" /\ last'.route \in {NoRouteFilter, 1}) =>
         \A r \in logs :
            (\/ /\ ~r.is_active
                /\ r.departed_at # Null
                /\ r.departed_at <= now
                /\ now <= r.departed_at + DEPARTED_VISIBLE_MINUTES
             \/ /\ r.is_active
                /\ r.created_at + departure_duration_minutes <= now)
            => \E i \in 1..Len(last'.entries) :
                  /\ last'.entries[i].id = r.id
                  /\ last'.entries[i].recently_departed]_vars

\* C39: the two endpoints of the public board are equivalent projections:
\* served from the same stored rows at the same now with the same route
\* filter, public_queue_data lists the rows public_queue_view lists, the
\* active ones as Boarding and the recently departed ones as Departed.
C39_BoardEndpointsAgree ==
    [][last'.op = "public_queue_data" =>
         LET page == public_queue_entries(_maintenance_task(logs, now), now,
                                          last'.route)
         IN  /\ {last'.entries[i].id : i \in 1..Len(last'.entries)}
                   = {page[i].id : i \in 1..Len(page)}
             /\ \A i \in 1..Len(last'.entries) : \A j \in 1..Len(page) :
                   last'.entries[i].id = page[j].id =>
                     /\ (last'.entries[i].status = "Boarding") = page[j].is_active
                     /\ (last'.entries[i].status = "Departed")
                           = page[j].recently_departed]_vars

====
